---- MODULE Spec2Model ----
(***************************************************************************)
(* Minibatch SGD of book1/supplements/opt_jax.ipynb: make_batch_stream,    *)
(* the from-scratch loop sgd and the optimizer-library loop sgd_jax, run   *)
(* one after the other on the same batch stream, as the notebook's cells   *)
(* do.  Real numbers are modelled by integers: the weight vector has one   *)
(* component, features and labels are bits, and the learning rate is a     *)
(* whole number of units.                                                  *)
(***************************************************************************)
EXTENDS Integers, Sequences, FiniteSets, TLC

\* Largest dataset size N.
MaxN == 3
\* Largest batch size tried (larger than MaxN, so batch_size > N happens).
MaxBatchSize == 4
\* Largest epoch count tried.
MaxEpochs == 2
\* Largest epoch count tried in the runs that look at the progress reports
\* (20 or more, so that print_every exceeds 1).
MaxReportEpochs == 21

VARIABLES
  X_train,       \* features, one number per row
  y_train,       \* labels, one bit per row
  batch_size,    \* argument of make_batch_stream
  max_epochs,    \* argument of sgd and sgd_jax
  lr,            \* learning rate
  w_init,        \* initial parameters
  pc,            \* position in the notebook's run
  batch_stream,  \* <<>> before make_batch_stream returned, else <<stream>>
  it,            \* position of the iterator of the running for-loop
  printed,       \* messages printed so far
  sgd,           \* local frame of sgd
  sgd_jax,       \* local frame of sgd_jax
  passes,        \* history: the batches each pass over the stream yielded
  updates        \* history: every parameter update of either loop

vars == <<X_train, y_train, batch_size, max_epochs, lr, w_init, pc,
          batch_stream, it, printed, sgd, sgd_jax, passes, updates>>

args == <<X_train, y_train, batch_size, max_epochs, lr, w_init>>

----------------------------------------------------------------------------
\* Arithmetic helpers.

Max(a, b) == IF a >= b THEN a ELSE b

Min(a, b) == IF a <= b THEN a ELSE b

RECURSIVE SeqSum(_)
SeqSum(s) == IF s = <<>> THEN 0 ELSE Head(s) + SeqSum(Tail(s))

\* ceil(n / d) for d > 0.
CeilDiv(n, d) == (n + d - 1) \div d

----------------------------------------------------------------------------
\* Objective.  The logistic loss is modelled over the integers by its
\* piecewise-linear limit: sigmoid becomes the unit step and the log-loss of a
\* row becomes max(0, -logit) for label 1 and max(0, logit) for label 0.  The
\* division by the batch's row count is left out of loss and gradient alike.

\* sigmoid(x) = 0.5 * (tanh(x / 2) + 1).
sigmoid(x) == IF x > 0 THEN 1 ELSE 0

\* jnp.dot(inputs, weights): one logit per row.
predict_logit(weights, inputs) ==
  [i \in 1..Len(inputs) |-> inputs[i] * weights]

\* sigmoid(predict_logit(weights, inputs)).
predict_prob(weights, inputs) ==
  [i \in 1..Len(inputs) |-> sigmoid(predict_logit(weights, inputs)[i])]

\* NLL(weights, batch), batch = (X, y): the loss of the batch.
NLL(weights, batch) ==
  LET X == batch[1]
      y == batch[2]
      logits == predict_logit(weights, X)
  IN  SeqSum([i \in 1..Len(X) |-> (sigmoid(logits[i]) - y[i]) * logits[i]])

\* NLL_grad(weights, batch): sum over the rows of (mu - y) * X.
NLL_grad(weights, batch) ==
  LET X == batch[1]
      y == batch[2]
      mu == predict_prob(weights, X)
  IN  SeqSum([i \in 1..Len(X) |-> (mu[i] - y[i]) * X[i]])

\* The callables the notebook hands to the loops: loss_fn = NLL in both,
\* grad_loss_fn = NLL_grad in sgd, and grad(loss_fn) in sgd_jax, which is the
\* derivative of NLL.
loss_fn(params, batch) == NLL(params, batch)

grad_loss_fn(params, batch) == NLL_grad(params, batch)

grad_of_loss_fn(params, batch) == NLL_grad(params, batch)

----------------------------------------------------------------------------
\* make_batch_stream.

\* tf.data.Dataset.from_tensor_slices({"X": X_train, "y": y_train}):
\* one element per row.
FromTensorSlices(X, y) ==
  [i \in 1..Len(X) |-> [X |-> X[i], y |-> y[i]]]

\* dataset.batch(batch_size) rejects a batch size that is not positive.
BatchSizeAccepted(bs) == bs > 0

\* Number of batches dataset.batch(batch_size) yields: consecutive groups of
\* batch_size elements, the last group holding what is left (drop_remainder
\* keeps its default, False).
NumBatches(n, bs) == CeilDiv(n, bs)

\* dataset.batch(batch_size), each batch stacked into a dict of arrays.
DatasetBatch(dataset, bs) ==
  [k \in 1..NumBatches(Len(dataset), bs) |->
     LET lo == (k - 1) * bs + 1
         hi == Min(k * bs, Len(dataset))
     IN  [X |-> [i \in 1..(hi - lo + 1) |-> dataset[lo + i - 1].X],
          y |-> [i \in 1..(hi - lo + 1) |-> dataset[lo + i - 1].y]]]

\* nbatches = int(np.floor(N/batch_size)), the count the message reports.
ReportedBatches(n, bs) == n \div bs

\* A stream that hands every loop the same one-shot iterator.
NewIteratorShared(previous) == previous

\* iter(batch_stream): the for-loop asks the stream for a new iterator, which
\* starts at the first batch wherever the previous iterator stopped.
NewIterator(previous) == 0

\* A report after every epoch.
PrintEveryEpoch(m) == 1

\* print_every = max(1, int(0.1*max_epochs)); int() truncates toward zero.
PrintEvery(m) == Max(1, IF m > 0 THEN m \div 10 ELSE 0)

\* A range that includes its upper end.
InRangeInclusive(e, m) == 0 <= e /\ e <= m

\* A loop that tests its bound after the body: epoch 0 always runs.
InRangeAfterBody(e, m) == e = 0 \/ (0 <= e /\ e < m)

\* range(max_epochs): the epochs 0 .. max_epochs-1, none when max_epochs <= 0.
InRange(e, m) == 0 <= e /\ e < m

----------------------------------------------------------------------------
\* optimizers.sgd(step_size=optimizers.constant(step_size=lr)).

\* A step size that grows with the iteration index.
ScheduleLinear(i) == lr * i

\* schedule(i): the constant schedule ignores the iteration index.
Schedule(i) == lr

\* opt_init(params): the optimizer state wraps the parameters.
OptInit(params) == [x |-> params]

\* get_params(opt_state).
GetParams(opt_state) == opt_state.x

\* opt_update(i, g, opt_state): x - step_size(i) * g.
OptUpdate(i, g, opt_state) == [x |-> opt_state.x - Schedule(i) * g]

\* A step index counted from the start of the epoch.
NextStepInEpoch(total_steps) == it + 1

\* total_steps += 1.
NextStep(total_steps) == total_steps + 1

\* A history that keeps the latest loss only.
HistoryOverwrite(loss_history, train_loss) == <<train_loss>>

\* loss_history.append(train_loss).
HistoryAppend(loss_history, train_loss) == Append(loss_history, train_loss)

----------------------------------------------------------------------------
\* Initial state: the notebook's inputs, nothing run yet.

Unbound == <<>>

Bound(v) == <<v>>

IsBound(o) == o # <<>>

ValueOf(o) == o[1]

Datasets ==
  UNION {[1..n -> {0, 1}] : n \in 0..MaxN}

SgdFrame0 ==
  [status |-> "idle", params |-> w_init, print_every |-> 0, epoch |-> -1,
   epoch_loss |-> 0, batch |-> Unbound, batch_loss |-> Unbound,
   result |-> Unbound]

SgdJaxFrame0 ==
  [status |-> "idle", params |-> w_init, loss_history |-> <<>>,
   opt_state |-> Unbound, print_every |-> 0, total_steps |-> 0,
   epoch |-> -1, epoch_loss |-> 0, batch |-> Unbound,
   train_loss |-> Unbound, result |-> Unbound]

Init ==
  /\ X_train \in Datasets
  /\ y_train \in [1..Len(X_train) -> {0, 1}]
  /\ batch_size \in -1..MaxBatchSize
  /\ max_epochs \in -1..MaxEpochs
  /\ lr \in {-1, 0, 1}
  /\ w_init \in {0, 1}
  /\ pc = "make_batch_stream"
  /\ batch_stream = Unbound
  /\ it = 0
  /\ printed = <<>>
  /\ sgd = SgdFrame0
  /\ sgd_jax = SgdJaxFrame0
  /\ passes = <<>>
  /\ updates = <<>>

\* Initial state of the runs that look at the progress reports: long runs
\* over a dataset of at most two rows, one row per batch.
InitReport ==
  /\ X_train \in UNION {[1..n -> {1}] : n \in 0..2}
  /\ y_train \in [1..Len(X_train) -> {0, 1}]
  /\ batch_size = 1
  /\ max_epochs \in 0..MaxReportEpochs
  /\ lr = 1
  /\ w_init \in {0, 1}
  /\ pc = "make_batch_stream"
  /\ batch_stream = Unbound
  /\ it = 0
  /\ printed = <<>>
  /\ sgd = SgdFrame0
  /\ sgd_jax = SgdJaxFrame0
  /\ passes = <<>>
  /\ updates = <<>>

----------------------------------------------------------------------------
\* Histories.

\* The pass that is being iterated gets one more batch.
Yielded(batch_dict) ==
  [passes EXCEPT ![Len(passes)].batches = Append(@, batch_dict)]

\* A pass starts: the loop of function fn asks for an iterator in its epoch.
Started(fn, epoch) ==
  Append(passes, [fn |-> fn, epoch |-> epoch, batches |-> <<>>])

Stream == ValueOf(batch_stream)

\* batch = (X, y) from the dict the stream yields.
AsBatch(batch_dict) == <<batch_dict.X, batch_dict.y>>

----------------------------------------------------------------------------
\* make_batch_stream(X_train, y_train, batch_size).

MakeBatchStream ==
  /\ pc = "make_batch_stream"
  /\ IF BatchSizeAccepted(batch_size)
     THEN /\ batch_stream' =
               Bound(DatasetBatch(FromTensorSlices(X_train, y_train), batch_size))
          /\ printed' = Append(printed,
               [fn |-> "make_batch_stream", N |-> Len(X_train),
                nbatches |-> ReportedBatches(Len(X_train), batch_size),
                batch_size |-> batch_size])
          /\ pc' = "sgd"
     ELSE /\ pc' = "make_batch_stream_raised"
          /\ UNCHANGED <<batch_stream, printed>>
  /\ UNCHANGED <<args, it, sgd, sgd_jax, passes, updates>>

----------------------------------------------------------------------------
\* sgd(params, loss_fn, grad_loss_fn, batch_iter, max_epochs, lr).

SgdCall ==
  /\ pc = "sgd"
  /\ sgd' = [SgdFrame0 EXCEPT !.status = "running",
                              !.print_every = PrintEvery(max_epochs)]
  /\ pc' = "sgd_for"
  /\ UNCHANGED <<args, batch_stream, it, printed, sgd_jax, passes, updates>>

\* for epoch in range(max_epochs): the next epoch starts a pass of the stream.
SgdEpoch ==
  /\ pc = "sgd_for"
  /\ InRange(sgd.epoch + 1, max_epochs)
  /\ sgd' = [sgd EXCEPT !.epoch = sgd.epoch + 1, !.epoch_loss = 0]
  /\ it' = NewIterator(it)
  /\ passes' = Started("sgd", sgd.epoch + 1)
  /\ pc' = "sgd_batches"
  /\ UNCHANGED <<args, batch_stream, printed, sgd_jax, updates>>

\* One iteration of the loop over the batches.
SgdBatch ==
  /\ pc = "sgd_batches"
  /\ it < Len(Stream)
  /\ LET batch_dict == Stream[it + 1]
         batch == AsBatch(batch_dict)
         batch_grad == grad_loss_fn(sgd.params, batch)
         params == sgd.params - lr * batch_grad
         batch_loss == loss_fn(params, batch)
     IN  /\ sgd' = [sgd EXCEPT !.params = params,
                               !.batch = Bound(batch),
                               !.batch_loss = Bound(batch_loss),
                               !.epoch_loss = @ + batch_loss]
         /\ passes' = Yielded(batch_dict)
         /\ updates' = Append(updates,
              [fn |-> "sgd", epoch |-> sgd.epoch, i |-> 0, batch |-> batch,
               before |-> sgd.params, after |-> params])
  /\ it' = it + 1
  /\ UNCHANGED <<args, pc, batch_stream, printed, sgd_jax>>

\* A report of the loss summed over the epoch's batches.
ReportedEpochLoss(frame) == frame.epoch_loss

\* The loss sgd reports for an epoch: batch_loss, as the last update left it.
ReportedLoss(frame) == ValueOf(frame.batch_loss)

\* The stream is exhausted: the epoch's report, which reads batch_loss.
SgdEpochEnd ==
  /\ pc = "sgd_batches"
  /\ it >= Len(Stream)
  /\ IF sgd.epoch % sgd.print_every = 0
     THEN IF IsBound(sgd.batch_loss)
          THEN /\ printed' = Append(printed,
                    [fn |-> "sgd", epoch |-> sgd.epoch,
                     loss |-> ReportedLoss(sgd)])
               /\ pc' = "sgd_for"
               /\ sgd' = sgd
          ELSE /\ sgd' = [sgd EXCEPT !.status = "raised"]
               /\ pc' = "sgd_jax"
               /\ printed' = printed
     ELSE /\ pc' = "sgd_for"
          /\ UNCHANGED <<sgd, printed>>
  /\ UNCHANGED <<args, batch_stream, it, sgd_jax, passes, updates>>

\* return params,
SgdReturn ==
  /\ pc = "sgd_for"
  /\ ~InRange(sgd.epoch + 1, max_epochs)
  /\ sgd' = [sgd EXCEPT !.status = "returned", !.result = Bound(<<sgd.params>>)]
  /\ pc' = "sgd_jax"
  /\ UNCHANGED <<args, batch_stream, it, printed, sgd_jax, passes, updates>>

----------------------------------------------------------------------------
\* sgd_jax(params, loss_fn, batch_stream, max_epochs, opt_init, opt_update,
\*         get_params).

\* update(i, opt_state, batch): the gradient is taken at the parameters the
\* state holds, then the optimizer steps.
update(i, opt_state, batch) ==
  LET params == GetParams(opt_state)
      g == grad_of_loss_fn(params, batch)
  IN  OptUpdate(i, g, opt_state)

\* A report that measures the loss on the first batch of the stream.
TrainLossFirstBatch(params, batch) ==
  IF IsBound(batch)
  THEN Bound(loss_fn(params, AsBatch(ValueOf(batch_stream)[1])))
  ELSE Unbound

\* A report that falls back to a loss of zero when no batch was processed.
TrainLossOrZero(params, batch) ==
  IF IsBound(batch) THEN Bound(loss_fn(params, ValueOf(batch))) ELSE Bound(0)

\* train_loss = np.float(loss_fn(params, batch)): reads the local batch, which
\* is unassigned (the read raises) until the batch loop ran once.
TrainLoss(params, batch) ==
  IF IsBound(batch) THEN Bound(loss_fn(params, ValueOf(batch))) ELSE Unbound

SgdJaxCall ==
  /\ pc = "sgd_jax"
  /\ sgd_jax' = [SgdJaxFrame0 EXCEPT !.status = "running",
                                     !.loss_history = <<>>,
                                     !.opt_state = Bound(OptInit(w_init)),
                                     !.print_every = PrintEvery(max_epochs),
                                     !.total_steps = 0]
  /\ pc' = "sgd_jax_for"
  /\ UNCHANGED <<args, batch_stream, it, printed, sgd, passes, updates>>

\* for epoch in range(max_epochs): the next epoch starts a pass of the stream.
SgdJaxEpoch ==
  /\ pc = "sgd_jax_for"
  /\ InRange(sgd_jax.epoch + 1, max_epochs)
  /\ sgd_jax' = [sgd_jax EXCEPT !.epoch = sgd_jax.epoch + 1, !.epoch_loss = 0]
  /\ it' = NewIterator(it)
  /\ passes' = Started("sgd_jax", sgd_jax.epoch + 1)
  /\ pc' = "sgd_jax_batches"
  /\ UNCHANGED <<args, batch_stream, printed, sgd, updates>>

\* One iteration of the loop over the batches.
SgdJaxBatch ==
  /\ pc = "sgd_jax_batches"
  /\ it < Len(Stream)
  /\ LET batch_dict == Stream[it + 1]
         batch == AsBatch(batch_dict)
         total_steps == NextStep(sgd_jax.total_steps)
         old_state == ValueOf(sgd_jax.opt_state)
         opt_state == update(total_steps, old_state, batch)
     IN  /\ sgd_jax' = [sgd_jax EXCEPT !.batch = Bound(batch),
                                       !.total_steps = total_steps,
                                       !.opt_state = Bound(opt_state)]
         /\ passes' = Yielded(batch_dict)
         /\ updates' = Append(updates,
              [fn |-> "sgd_jax", epoch |-> sgd_jax.epoch, i |-> total_steps,
               batch |-> batch, before |-> GetParams(old_state),
               after |-> GetParams(opt_state)])
  /\ it' = it + 1
  /\ UNCHANGED <<args, pc, batch_stream, printed, sgd>>

\* The stream is exhausted: the epoch's loss on the local batch, appended to
\* the history and reported.
SgdJaxEpochEnd ==
  /\ pc = "sgd_jax_batches"
  /\ it >= Len(Stream)
  /\ LET params == GetParams(ValueOf(sgd_jax.opt_state))
         train_loss == TrainLoss(params, sgd_jax.batch)
     IN  IF IsBound(train_loss)
         THEN /\ sgd_jax' = [sgd_jax EXCEPT
                   !.params = params,
                   !.train_loss = train_loss,
                   !.loss_history = HistoryAppend(@, ValueOf(train_loss))]
              /\ printed' =
                   IF sgd_jax.epoch % sgd_jax.print_every = 0
                   THEN Append(printed,
                          [fn |-> "sgd_jax", epoch |-> sgd_jax.epoch,
                           loss |-> ValueOf(train_loss)])
                   ELSE printed
              /\ pc' = "sgd_jax_for"
         ELSE /\ sgd_jax' = [sgd_jax EXCEPT !.params = params,
                                            !.status = "raised"]
              /\ printed' = printed
              /\ pc' = "done"
  /\ UNCHANGED <<args, batch_stream, it, sgd, passes, updates>>

\* return params, loss_history
SgdJaxReturn ==
  /\ pc = "sgd_jax_for"
  /\ ~InRange(sgd_jax.epoch + 1, max_epochs)
  /\ sgd_jax' = [sgd_jax EXCEPT
        !.status = "returned",
        !.result = Bound(<<sgd_jax.params, sgd_jax.loss_history>>)]
  /\ pc' = "done"
  /\ UNCHANGED <<args, batch_stream, it, printed, sgd, passes, updates>>

----------------------------------------------------------------------------

Next ==
  \/ MakeBatchStream
  \/ SgdCall
  \/ SgdEpoch
  \/ SgdBatch
  \/ SgdEpochEnd
  \/ SgdReturn
  \/ SgdJaxCall
  \/ SgdJaxEpoch
  \/ SgdJaxBatch
  \/ SgdJaxEpochEnd
  \/ SgdJaxReturn

Spec == Init /\ [][Next]_vars

SpecReport == InitReport /\ [][Next]_vars

----------------------------------------------------------------------------
\* Views of the histories used by the properties.

N == Len(X_train)

\* The passes whose iterator was exhausted and whose epoch end has run.
CompletedPasses ==
  {p \in 1..Len(passes) :
     p < Len(passes) \/ pc \notin {"sgd_batches", "sgd_jax_batches"}}

UpdatesOf(fn) == SelectSeq(updates, LAMBDA u : u.fn = fn)

UpdatesOfEpoch(fn, e) == SelectSeq(updates, LAMBDA u : u.fn = fn /\ u.epoch = e)

BatchesOf(us) == [j \in 1..Len(us) |-> us[j].batch]

IsPrefix(a, b) == Len(a) <= Len(b) /\ a = SubSeq(b, 1, Len(a))

\* Passes of sgd_jax whose epoch ran to its end without raising.
CompletedEpochs ==
  Cardinality({p \in CompletedPasses : passes[p].fn = "sgd_jax"})
    - (IF sgd_jax.status = "raised" THEN 1 ELSE 0)

\* Batches the stream yielded to the loop of function fn so far.
YieldedTo(fn) ==
  SeqSum([p \in 1..Len(passes) |->
            IF passes[p].fn = fn THEN Len(passes[p].batches) ELSE 0])

Last(s) == s[Len(s)]

\* Rows lo..hi of the training set, as a batch dict.
Rows(lo, hi) == [X |-> SubSeq(X_train, lo, hi), y |-> SubSeq(y_train, lo, hi)]

----------------------------------------------------------------------------
\* C1: one pass over the stream yields exactly floor(N/batch_size) batches,
\* each of exactly batch_size consecutive rows in row order; the trailing
\* N mod batch_size rows are in no batch, and batch_size > N yields no batch.
C1_FullBatchesOnly ==
  \A p \in CompletedPasses :
    /\ Len(passes[p].batches) = N \div batch_size
    /\ \A k \in 1..Len(passes[p].batches) :
         passes[p].batches[k] = Rows((k - 1) * batch_size + 1, k * batch_size)

----------------------------------------------------------------------------
\* C2: every pass over the same stream, in a later epoch or in the later run
\* that reuses the stream, yields the same batches in the same order as the
\* first pass: no pass is shortened or reordered by an earlier one.
C2_Restartable ==
  /\ \A p \in CompletedPasses : passes[p].batches = passes[1].batches
  /\ \A p \in 1..Len(passes) :
       /\ Len(passes[p].batches) <= Len(Stream)
       /\ passes[p].batches = SubSeq(Stream, 1, Len(passes[p].batches))

\* Both runs iterated a stream of at least two different batches twice each.
C2_Witness ==
  /\ pc = "done"
  /\ Len(passes) = 4
  /\ passes[3].fn = "sgd_jax"
  /\ Len(passes[4].batches) >= 2
  /\ passes[4].batches[1] # passes[4].batches[2]

----------------------------------------------------------------------------
\* C3: with the plain-SGD optimizer at a constant learning rate, sgd_jax ends
\* as sgd does and returns the same final parameters, having applied the same
\* number of updates to the same batches in the same order.
C3_SgdJaxMatchesSgd ==
  pc = "done" =>
    /\ sgd.status = sgd_jax.status
    /\ BatchesOf(UpdatesOf("sgd")) = BatchesOf(UpdatesOf("sgd_jax"))
    /\ sgd.status = "returned" =>
         ValueOf(sgd.result)[1] = ValueOf(sgd_jax.result)[1]

\* Both loops returned after at least four updates each that moved the
\* parameters away from the initial ones.
C3_Witness ==
  /\ pc = "done"
  /\ sgd.status = "returned"
  /\ sgd_jax.status = "returned"
  /\ Len(UpdatesOf("sgd_jax")) >= 4
  /\ \E j \in 2..Len(UpdatesOf("sgd_jax")) :
       UpdatesOf("sgd_jax")[j].before # UpdatesOf("sgd_jax")[j].after
  /\ ValueOf(sgd_jax.result)[1] # w_init

----------------------------------------------------------------------------
\* C4: a run with max_epochs = 0 returns the initial parameters and an empty
\* loss history, and evaluates no gradient and takes no optimizer step.
C4_ZeroEpochs ==
  max_epochs = 0 =>
    /\ updates = <<>>
    /\ passes = <<>>
    /\ sgd.status # "raised" /\ sgd_jax.status # "raised"
    /\ sgd.status = "returned" => ValueOf(sgd.result) = <<w_init>>
    /\ sgd_jax.status = "returned" => ValueOf(sgd_jax.result) = <<w_init, <<>>>>
    /\ pc = "done" => sgd_jax.status = "returned"

\* A run of zero epochs over a stream that has batches to give has returned.
C4_Witness ==
  /\ max_epochs = 0
  /\ pc = "done"
  /\ sgd_jax.status = "returned"
  /\ Len(Stream) >= 2

----------------------------------------------------------------------------
\* C5: the loss history is append-only with one entry per epoch: its length
\* is always the number of completed epochs, appended entries never change,
\* and a run of max_epochs = E >= 0 over a stream that yields a batch returns
\* a history of length E.
C5_HistoryPerEpoch ==
  /\ [](/\ Len(sgd_jax.loss_history) = CompletedEpochs
        /\ (sgd_jax.status = "returned" /\ max_epochs >= 0 /\ Len(Stream) >= 1)
             => Len(ValueOf(sgd_jax.result)[2]) = max_epochs)
  /\ [][IsPrefix(sgd_jax.loss_history, sgd_jax'.loss_history)]_vars

\* A run of two or more epochs returned a history of that length whose
\* entries differ.
C5_Witness ==
  /\ sgd_jax.status = "returned"
  /\ max_epochs >= 2
  /\ Len(ValueOf(sgd_jax.result)[2]) = max_epochs
  /\ ValueOf(sgd_jax.result)[2][1] # ValueOf(sgd_jax.result)[2][2]

----------------------------------------------------------------------------
\* C6: the loss appended for epoch k is loss_fn at the parameters held after
\* the last step of epoch k, on the last batch processed in epoch k; it is
\* never taken on a batch of another epoch.
C6_LossOnLastBatch ==
  \A k \in 1..Len(sgd_jax.loss_history) :
    LET us == UpdatesOfEpoch("sgd_jax", k - 1)
    IN  /\ us # <<>>
        /\ sgd_jax.loss_history[k] = NLL(Last(us).after, Last(us).batch)

\* An epoch of several batches whose reported loss is neither the loss on its
\* first batch nor the mean of the losses seen after each step.
C6_Witness ==
  \E k \in 1..Len(sgd_jax.loss_history) :
    LET us == UpdatesOfEpoch("sgd_jax", k - 1)
    IN  /\ Len(us) >= 2
        /\ sgd_jax.loss_history[k] # NLL(Last(us).after, us[1].batch)
        /\ sgd_jax.loss_history[k] * Len(us) #
             SeqSum([j \in 1..Len(us) |-> NLL(us[j].after, us[j].batch)])

----------------------------------------------------------------------------
\* C7: the iteration index handed to the optimizer is 1 for the first batch
\* of the run, grows by 1 with each batch, is not reset between epochs and
\* ends at E*B after E epochs of B batches; each batch causes one step, whose
\* gradient is taken at the parameters the state held just before it.
C7_GlobalStepIndex ==
  LET us == UpdatesOf("sgd_jax")
  IN  /\ \A j \in 1..Len(us) :
           /\ us[j].i = j
           /\ us[j].before = (IF j = 1 THEN w_init ELSE us[j - 1].after)
           /\ us[j].after =
                us[j].before - lr * NLL_grad(us[j].before, us[j].batch)
      /\ sgd_jax.total_steps = Len(us)
      /\ Len(us) = YieldedTo("sgd_jax")
      /\ (sgd_jax.status = "returned" /\ max_epochs >= 0)
           => sgd_jax.total_steps = max_epochs * Len(Stream)

\* A returned run of several epochs of several batches: the first step of the
\* second epoch carried the index B + 1.
C7_Witness ==
  /\ sgd_jax.status = "returned"
  /\ max_epochs >= 2
  /\ Len(Stream) >= 2
  /\ sgd_jax.total_steps = max_epochs * Len(Stream)
  /\ UpdatesOfEpoch("sgd_jax", 1)[1].i = Len(Stream) + 1

----------------------------------------------------------------------------
\* C8 as stated: a run configured with a non-positive batch size, epoch count
\* or learning rate fails at once, takes no optimizer step and returns no
\* result.
C8_InvalidConfigRejected ==
  (batch_size <= 0 \/ max_epochs <= 0 \/ lr <= 0) =>
    /\ updates = <<>>
    /\ sgd.status # "returned"
    /\ sgd_jax.status # "returned"

\* C8 as the code has it: only a non-positive batch size fails at once, in
\* make_batch_stream, with no stream, no step and no result.  A non-positive
\* epoch count is no error: the loops take no step and return the initial
\* parameters, sgd_jax with an empty history.  A non-positive learning rate
\* is not checked: over a non-empty dataset with max_epochs >= 1 the loops
\* take every step with it and return.
C8_OnlyBatchSizeRejected ==
  /\ batch_size <= 0 =>
       /\ pc \in {"make_batch_stream", "make_batch_stream_raised"}
       /\ batch_stream = Unbound
       /\ updates = <<>>
       /\ sgd.status = "idle" /\ sgd_jax.status = "idle"
  /\ (batch_size > 0 /\ max_epochs <= 0) =>
       /\ pc # "make_batch_stream_raised"
       /\ updates = <<>>
       /\ sgd.status # "raised" /\ sgd_jax.status # "raised"
       /\ pc = "done" =>
            /\ sgd.result = Bound(<<w_init>>)
            /\ sgd_jax.result = Bound(<<w_init, <<>>>>)
  /\ (batch_size > 0 /\ max_epochs >= 1 /\ lr <= 0 /\ N >= 1) =>
       /\ pc # "make_batch_stream_raised"
       /\ sgd.status # "raised" /\ sgd_jax.status # "raised"
       /\ \A j \in 1..Len(updates) :
            updates[j].after =
              updates[j].before - lr * NLL_grad(updates[j].before, updates[j].batch)
       /\ pc = "done" =>
            /\ sgd.status = "returned" /\ sgd_jax.status = "returned"
            /\ Len(UpdatesOf("sgd")) = max_epochs * Len(Stream)
            /\ Len(UpdatesOf("sgd_jax")) = max_epochs * Len(Stream)

\* A run of one epoch or more with a negative learning rate finished: both
\* loops returned, and the steps moved the parameters.
C8_Witness ==
  /\ lr < 0
  /\ max_epochs >= 1
  /\ pc = "done"
  /\ sgd.status = "returned"
  /\ sgd_jax.status = "returned"
  /\ ValueOf(sgd_jax.result)[1] # w_init

----------------------------------------------------------------------------
\* C10: when the stream yields no batch in an epoch, the loop appends no loss
\* for that epoch and does not carry on in silence: it fails.
C10_EmptyEpochFails ==
  \A p \in CompletedPasses :
    (passes[p].fn = "sgd_jax" /\ passes[p].batches = <<>>) =>
      /\ sgd_jax.status = "raised"
      /\ sgd_jax.result = Unbound
      /\ Len(sgd_jax.loss_history) <= passes[p].epoch

\* An epoch of sgd_jax over an empty stream has ended.
C10_Witness ==
  /\ pc = "done"
  /\ max_epochs >= 2
  /\ Len(passes) >= 1
  /\ Last(passes).fn = "sgd_jax"
  /\ Last(passes).batches = <<>>
  /\ sgd_jax.status = "raised"

----------------------------------------------------------------------------
\* Views of the progress reports.

\* The messages the loop of function fn printed so far.
MessagesOf(fn) == SelectSeq(printed, LAMBDA m : m.fn = fn)

\* Epochs of the loop of function fn whose end has run without raising.
EndedEpochs(fn, status) ==
  Cardinality({p \in CompletedPasses : passes[p].fn = fn})
    - (IF status = "raised" THEN 1 ELSE 0)

\* The messages of fn are those of the ended epochs e with
\* e mod max(1, floor(max_epochs / 10)) = 0, once each, in epoch order.
ReportedOnCadence(fn, status) ==
  LET msgs == MessagesOf(fn)
      cadence == IF max_epochs \div 10 >= 1 THEN max_epochs \div 10 ELSE 1
  IN  /\ \A e \in 0..(EndedEpochs(fn, status) - 1) :
           (e % cadence = 0) <=> (\E j \in 1..Len(msgs) : msgs[j].epoch = e)
      /\ \A j \in 1..Len(msgs) :
           /\ msgs[j].epoch < EndedEpochs(fn, status)
           /\ j > 1 => msgs[j - 1].epoch < msgs[j].epoch

\* The parameters the loop of function fn holds after its updates so far.
FinalOf(fn) ==
  IF UpdatesOf(fn) = <<>> THEN w_init ELSE Last(UpdatesOf(fn)).after

\* What the loops return is what their updates left, reported or not.
ReportsLeaveResults ==
  /\ sgd.status = "returned" => ValueOf(sgd.result)[1] = FinalOf("sgd")
  /\ sgd_jax.status = "returned" =>
       /\ ValueOf(sgd_jax.result)[1] = FinalOf("sgd_jax")
       /\ \A k \in 1..Len(ValueOf(sgd_jax.result)[2]) :
            ValueOf(sgd_jax.result)[2][k] =
              NLL(Last(UpdatesOfEpoch("sgd_jax", k - 1)).after,
                  Last(UpdatesOfEpoch("sgd_jax", k - 1)).batch)

----------------------------------------------------------------------------
\* C11 as stated: a progress message is printed for epoch e exactly when
\* e mod max(1, floor(0.1*max_epochs)) = 0, a run prints no more than 11 of
\* them, and printing leaves the returned parameters and history alone.
C11_AtMostElevenMessages ==
  /\ ReportedOnCadence("sgd", sgd.status)
  /\ ReportedOnCadence("sgd_jax", sgd_jax.status)
  /\ Len(MessagesOf("sgd")) <= 11
  /\ Len(MessagesOf("sgd_jax")) <= 11
  /\ ReportsLeaveResults

\* C11 as the code has it: a progress message is printed for epoch e exactly
\* when e mod max(1, floor(0.1*max_epochs)) = 0; a run prints no more than 19
\* of them (19 at max_epochs = 19); a step that prints changes no parameter,
\* and what the loops return is what their updates left.
C11_ReportCadence ==
  /\ [](/\ ReportedOnCadence("sgd", sgd.status)
        /\ ReportedOnCadence("sgd_jax", sgd_jax.status)
        /\ Len(MessagesOf("sgd")) <= 19
        /\ Len(MessagesOf("sgd_jax")) <= 19
        /\ ReportsLeaveResults)
  /\ [][printed' # printed =>
          /\ updates' = updates
          /\ sgd'.params = sgd.params
          /\ sgd_jax'.opt_state = sgd_jax.opt_state]_vars

\* A run of 20 epochs or more returned: print_every is 2, the epochs 0 and 2
\* were reported and epoch 1, which changed the parameters, was not.
C11_Witness ==
  /\ sgd_jax.status = "returned"
  /\ max_epochs >= 20
  /\ sgd_jax.print_every = 2
  /\ Len(MessagesOf("sgd_jax")) >= 10
  /\ MessagesOf("sgd_jax")[2].epoch = 2
  /\ \E j \in 1..Len(UpdatesOfEpoch("sgd_jax", 1)) :
       UpdatesOfEpoch("sgd_jax", 1)[j].before # UpdatesOfEpoch("sgd_jax", 1)[j].after

----------------------------------------------------------------------------
\* C12: the batch count make_batch_stream reports in its message, nbatches,
\* is the number of batches the stream yields in one pass, and so the number
\* of optimizer steps sgd and sgd_jax take in each epoch.
C12_ReportedCountIsYielded ==
  \A m \in 1..Len(printed) :
    printed[m].fn = "make_batch_stream" =>
      /\ printed[m].nbatches = Len(Stream)
      /\ \A p \in CompletedPasses :
           /\ Len(passes[p].batches) = printed[m].nbatches
           /\ Len(UpdatesOfEpoch(passes[p].fn, passes[p].epoch)) =
                printed[m].nbatches

----------------------------------------------------------------------------
\* C13: for every epoch that processes a batch, the batch loss sgd holds at
\* the end of the epoch (loss_fn right after the epoch's last update, on that
\* update's batch) is the value sgd_jax appends to loss_history for the same
\* epoch; the accumulated epoch_loss of either loop influences neither the
\* parameters nor the reported value.
C13_SgdLossMatchesHistory ==
  /\ \A m \in 1..Len(MessagesOf("sgd")) :
       LET msg == MessagesOf("sgd")[m]
           us == UpdatesOfEpoch("sgd", msg.epoch)
       IN  /\ us # <<>>
           /\ msg.loss = NLL(Last(us).after, Last(us).batch)
           /\ Len(sgd_jax.loss_history) > msg.epoch =>
                msg.loss = sgd_jax.loss_history[msg.epoch + 1]
  /\ \A j \in 1..Len(UpdatesOf("sgd")) :
       LET us == UpdatesOf("sgd")
       IN  /\ us[j].before = (IF j = 1 THEN w_init ELSE us[j - 1].after)
           /\ us[j].after =
                us[j].before - lr * NLL_grad(us[j].before, us[j].batch)
  /\ sgd_jax.epoch_loss = 0

\* Both loops ran two epochs or more of several batches; the loss of the
\* second epoch is not zero, is in the history of sgd_jax, and differs from
\* the epoch_loss sgd accumulated.
C13_Witness ==
  /\ pc = "done"
  /\ sgd.status = "returned"
  /\ sgd_jax.status = "returned"
  /\ max_epochs >= 2
  /\ Len(Stream) >= 2
  /\ Len(MessagesOf("sgd")) = max_epochs
  /\ MessagesOf("sgd")[2].loss = sgd_jax.loss_history[2]
  /\ MessagesOf("sgd")[2].loss # 0
  /\ sgd.epoch_loss # ValueOf(sgd.batch_loss)

====
